---- MODULE Spec2Model ----
(***************************************************************************)
(* Model of mysql-tables-to-gcs (src/main.go): main enumerates the         *)
(* databases, then runs one job per database under dbGroup (an             *)
(* errgroup.Group with SetLimit(dbLimit)); each job enumerates its tables  *)
(* and runs one task per table under its own tableGroup (SetLimit          *)
(* (tableLimit)); each task starts mysqldump, streams its output through   *)
(* uploadToGCS and then waits for the process.                             *)
(*                                                                         *)
(* Strings are sequences of symbols: a symbol is a separator ("," "/" "\n" *)
(* "\r") or a chunk of ordinary characters, so splitting, line scanning    *)
(* and path formatting are computed on the text as the code computes them. *)
(***************************************************************************)
EXTENDS Integers, Sequences, FiniteSets, TLC

\* ------------------------------------------------------------------ bounds

\* largest value tried for -dbLimit and -tableLimit
MaxLimit == 2
\* most lines the server prints for SHOW DATABASES
MaxDBs == 2
\* most lines the server prints for SHOW TABLES
MaxTables == 2
\* the wall clock stops advancing after this many ticks
MaxTime == 2
\* units of data a dump writes to its pipe: 0..MaxUnits
MaxUnits == 6

\* clock ticks per hour: time.Format("2006-01-02-15") keeps the hour only
TicksPerHour == 2
\* what bufWriter holds before it writes through (chunkSize), in units of data
BufUnits == 2
\* width of uint and int, scaled down from 64
UintBits == 3

\* ------------------------------------------------------------------ text

\* index of the first occurrence of symbol c in s, 0 when there is none
IndexOf(s, c) ==
    IF \E i \in 1..Len(s) : s[i] = c
    THEN CHOOSE i \in 1..Len(s) : s[i] = c /\ \A k \in 1..(i - 1) : s[k] # c
    ELSE 0

\* strings.Split(s, sep) for a one-symbol separator: never empty, "" gives [""]
RECURSIVE Split(_, _)
Split(s, sep) ==
    LET i == IndexOf(s, sep)
    IN  IF i = 0
        THEN <<s>>
        ELSE <<SubSeq(s, 1, i - 1)>> \o Split(SubSeq(s, i + 1, Len(s)), sep)

\* bufio.ScanLines drops one trailing carriage return of a line
DropCR(line) ==
    IF Len(line) > 0 /\ line[Len(line)] = "\r"
    THEN SubSeq(line, 1, Len(line) - 1)
    ELSE line

\* bufio.Scanner over the text with the default split function (ScanLines):
\* every newline-terminated line, then a last unterminated line if not empty
RECURSIVE ScanLines(_)
ScanLines(s) ==
    IF s = <<>>
    THEN <<>>
    ELSE LET i == IndexOf(s, "\n")
         IN  IF i = 0
             THEN <<DropCR(s)>>
             ELSE <<DropCR(SubSeq(s, 1, i - 1))>> \o ScanLines(SubSeq(s, i + 1, Len(s)))

\* the text the mysql client prints for a list of names: one line per name
RECURSIVE PrintLines(_)
PrintLines(names) ==
    IF names = <<>>
    THEN <<>>
    ELSE Head(names) \o <<"\n">> \o PrintLines(Tail(names))

\* ------------------------------------------------------------------ inputs

\* the names a server may list, in the order it lists them
DBPool == << <<"appdb">>, <<"test">>, <<"information_schema">>, <<"logsdb">> >>
TablePool == << <<"users">>, <<"orders">>, <<"events">> >>

\* -skipDBs default value
DefaultSkipDBs ==
    <<"information_schema", ",", "performance_schema", ",", "test">>

\* values tried for -skipDBs: the default, the empty string, a custom list
SkipInputs == { DefaultSkipDBs, <<>>, <<"logsdb", ",", "appdb">> }

\* outputs of SHOW DATABASES / SHOW TABLES the server may produce
DBOutputs == { PrintLines(SubSeq(DBPool, 1, n)) : n \in 0..MaxDBs }
TableOutputs == { PrintLines(SubSeq(TablePool, 1, n)) : n \in 0..MaxTables }

\* os.Hostname()
hostname == <<"backuphost">>

Limits == 1..MaxLimit
\* every value flag.UintVar accepts for -dbLimit and -tableLimit
UintValues == 0..(2^UintBits - 1)
DBIdx == 1..MaxDBs
TblIdx == 1..MaxTables
TaskIdx == DBIdx \X TblIdx

\* errors: the nil error, and fmt.Errorf values naming what failed
NoErr == [kind |-> "nil", database |-> <<>>, table |-> <<>>]
Err(kind, database, table) == [kind |-> kind, database |-> database, table |-> table]

\* ------------------------------------------------------------------ state

VARIABLES
    pc,          \* where main is
    runErr,      \* why main called log.Fatal ("none" while it has not)
    skipDBs,     \* flag -skipDBs
    dbLimit,     \* flag -dbLimit
    tableLimit,  \* flag -tableLimit
    now,         \* the wall clock, in ticks
    dbOutput,    \* what SHOW DATABASES printed: [err, out]
    databases,   \* result of getDatabases
    i,           \* index of the next database of the range loop
    dbGroup,     \* errgroup of the jobs: [sem, wg, err], and the history
                 \* `first`: index of the first job closure to return an error
    job,         \* per database index: the job closure and its tableGroup
    task,        \* per (database index, table index): the task closure
    keyIn,       \* two (host, stamp, schema, table) tuples to derive keys for
    keyOut,      \* the object names derived for them (<<>> before)
    up,          \* one call of uploadToGCS, statement by statement
    history      \* whether the order in which closures fail is recorded

vars == <<pc, runErr, skipDBs, dbLimit, tableLimit, now, dbOutput, databases,
          i, dbGroup, job, task, keyIn, keyOut, up, history>>

keyVars == <<keyIn, keyOut>>

\* the variables of the specifications of a single function
pureVars == <<keyIn, keyOut, up, history>>

flags == <<skipDBs, dbLimit, tableLimit>>

\* first: history of the tableGroup, read by no step: the table index of the
\* task closure that was the first to return a non-nil error (0: none yet)
IdleJob == [pc |-> "idle", enum |-> "none", tables |-> <<>>, j |-> 1,
            sem |-> 0, wg |-> 0, err |-> NoErr, result |-> NoErr, first |-> 0,
            database |-> <<>>]

\* dbGroup := new(errgroup.Group); first is its history, as in IdleJob
IdleGroup == [sem |-> 0, wg |-> 0, err |-> NoErr, first |-> 0]

\* database, table: the copies of the loop variables the closure captured
IdleTask == [pc |-> "idle", ts |-> <<>>, proc |-> "none", exit |-> "none",
             obj |-> "none", err |-> NoErr, database |-> <<>>, table |-> <<>>]

\* the state of main when the program starts
InitRun ==
    /\ pc = "start"
    /\ runErr = "none"
    /\ skipDBs \in SkipInputs
    /\ dbLimit \in Limits
    /\ tableLimit \in Limits
    /\ now = 0
    /\ dbOutput = [err |-> FALSE, out |-> <<>>]
    /\ databases = <<>>
    /\ i = 1
    /\ dbGroup = IdleGroup
    /\ job = [d \in DBIdx |-> IdleJob]
    /\ task = [x \in TaskIdx |-> IdleTask]

NoKey == [host |-> <<>>, stamp |-> <<>>, schema |-> <<>>, table |-> <<>>]

\* uploadToGCS before it is called: src is what the reader will yield, buf
\* what bufWriter holds, out what went through gzipWriter into the object
\* writer (all in units of data); ran lists the statements executed; gz and w
\* count the calls of gzipWriter.Close and writer.Close
IdleUpload == [pc |-> "idle", src |-> 0, buf |-> 0, out |-> 0, ran |-> <<>>,
               gz |-> 0, w |-> 0, obj |-> "none", err |-> "nil"]

Init ==
    /\ InitRun
    /\ keyIn = <<NoKey, NoKey>>
    /\ keyOut = <<>>
    /\ up = IdleUpload
    /\ history = FALSE

\* ------------------------------------------------------------------ functions

\* contains as it would be if the loop looked at the first item only
containsFirst(slice, value) == Len(slice) > 0 /\ slice[1] = value

\* contains (src/main.go): linear search for an equal string
contains(slice, value) == \E k \in 1..Len(slice) : slice[k] = value

\* getDatabases (src/main.go) on the output of a successful mysql command:
\* the lines of the output that are not in strings.Split(skipDBs, ",")
getDatabases(output, skip) ==
    LET skipDBList == Split(skip, ",")
    IN  SelectSeq(ScanLines(output), LAMBDA database : ~contains(skipDBList, database))

\* getTables (src/main.go) on the output of a successful mysql command
getTables(output) == ScanLines(output)

\* time.Now().Format("2006-01-02-15") at clock value t
Format(t) == <<ToString(t \div TicksPerHour)>>

\* fmt.Sprintf("%s/%s/%s", hostname, time.Now().Format(...), database)
backupPath(host, stamp, database) == host \o <<"/">> \o stamp \o <<"/">> \o database

\* fmt.Sprintf("%s/%s.sql.gz", *backupPath, *table)
objectName(path, table) == path \o <<"/">> \o table \o <<".sql.gz">>

\* the steps of uploadToGCS that can fail, in the order the code runs them
UploadSteps == <<"copy", "flush", "gzip", "close", "attrs">>
UploadFaults == {UploadSteps[k] : k \in 1..Len(UploadSteps)}

\* uploadToGCS as it would be without the check of object.Attrs: a failure
\* to fetch the metadata is not reported
uploadToGCSNoAttrs(fault) ==
    LET last == IF fault = "none" THEN Len(UploadSteps) ELSE IndexOf(UploadSteps, fault)
        ran  == SubSeq(UploadSteps, 1, last)
        closed == \E k \in 1..Len(ran) : ran[k] = "close" /\ fault # "close"
    IN  [ran |-> ran,
         err |-> IF fault \in {"none", "attrs"} THEN "nil" ELSE fault,
         obj |-> IF ~closed THEN "partial"
                 ELSE IF fault = "attrs" THEN "unverified" ELSE "verified"]

\* uploadToGCS (src/main.go) when step `fault` fails ("none": no step fails).
\* Every step returns at once on its error, so the steps run are those up to
\* the failing one.  ran: the steps executed; err: the failing step or "nil";
\* obj: the remote object ("partial": writer.Close did not succeed,
\* "unverified": finalized but object.Attrs failed, "verified": all succeeded).
uploadToGCS(fault) ==
    LET last == IF fault = "none" THEN Len(UploadSteps) ELSE IndexOf(UploadSteps, fault)
        ran  == SubSeq(UploadSteps, 1, last)
        closed == \E k \in 1..Len(ran) : ran[k] = "close" /\ fault # "close"
    IN  [ran |-> ran,
         err |-> IF fault = "none" THEN "nil" ELSE fault,
         obj |-> IF ~closed THEN "partial"
                 ELSE IF fault = "attrs" THEN "unverified" ELSE "verified"]

\* the conversion int(u) of a uint: the same bits read as a signed integer
ToInt(u) == IF u < 2^(UintBits - 1) THEN u ELSE u - 2^UintBits

\* errgroup.Group.SetLimit(int(limit)): the capacity of the semaphore
SetLimit(limit) == limit

\* a semaphore that admits one goroutine too many
AcquirableOffByOne(sem, limit) == limit < 0 \/ sem <= limit

\* errgroup.Group.Go blocks on `g.sem <- token{}` while the semaphore is full;
\* a negative limit means no semaphore
Acquirable(sem, limit) == limit < 0 \/ sem < limit

\* a Wait that returns while one goroutine is still not done
WaitReturnsEarly(wg) == wg <= 1

\* errgroup.Group.Wait blocks on g.wg.Wait() until every goroutine is done
WaitReturns(wg) == wg = 0

\* an error slot in which a later error replaces an earlier one
RecordErrOverwrite(cur, new) == IF new # NoErr THEN new ELSE cur

\* an error slot that keeps the last result, nil included, instead of the
\* first error
RecordErrLast(cur, new) == new

\* the wrapper goroutine of errgroup.Group.Go: a non-nil error is stored
\* through g.errOnce, so only the first one is kept
RecordErr(cur, new) == IF new # NoErr /\ cur = NoErr THEN new ELSE cur

\* main as it would be if the error of getDatabases were not checked
AfterGetDatabasesIgnored(err) == "newClient"

\* main after getDatabases: log.Fatalf on error
AfterGetDatabases(err) == IF err THEN "fatal" ELSE "newClient"

\* the task closure as it would be if the error of cmd.Wait were dropped
WaitResultIgnored(exit, database, table) == NoErr

\* the task closure after cmd.Wait()
WaitResult(exit, database, table) ==
    IF exit = "nonzero" THEN Err("wait", database, table) ELSE NoErr

\* the task closure after uploadToGCS
UploadResult(r, database, table) ==
    IF r.err # "nil" THEN Err("upload", database, table) ELSE NoErr

\* the history of a group when the closure of index idx returns e: the first
\* closure to return a non-nil error is remembered (when history is recorded)
FirstFailed(cur, idx, e) == IF history /\ cur = 0 /\ e # NoErr THEN idx ELSE cur

\* ------------------------------------------------------------------ main

\* main, flag.Parse to os.Hostname: log.Fatal when a required flag is
\* missing or the hostname cannot be read
Start ==
    /\ pc = "start"
    /\ \E ok \in BOOLEAN :
         /\ pc' = IF ok THEN "getDatabases" ELSE "fatal"
         /\ runErr' = IF ok THEN runErr ELSE "setup"
    /\ UNCHANGED <<pureVars, flags, now, dbOutput, databases, i, dbGroup, job, task>>

\* main calls getDatabases: the mysql command fails, or prints a list
GetDatabases ==
    /\ pc = "getDatabases"
    /\ \E failed \in BOOLEAN, out \in DBOutputs :
         /\ dbOutput' = [err |-> failed, out |-> out]
         /\ databases' = IF failed THEN <<>> ELSE getDatabases(out, skipDBs)
         /\ pc' = AfterGetDatabases(failed)
         /\ runErr' = IF pc' = "fatal" THEN "databases" ELSE runErr
    /\ UNCHANGED <<pureVars, flags, now, i, dbGroup, job, task>>

\* main creates the storage client: log.Fatalf on error
NewClient ==
    /\ pc = "newClient"
    /\ \E ok \in BOOLEAN :
         /\ pc' = IF ok THEN "loop" ELSE "fatal"
         /\ runErr' = IF ok THEN runErr ELSE "client"
    /\ UNCHANGED <<pureVars, flags, now, dbOutput, databases, i, dbGroup, job, task>>

\* the database loop as it would be with cancellation: once dbGroup holds
\* an error the remaining databases are skipped
MainGoSkipAfterError ==
    /\ pc = "loop"
    /\ i <= Len(databases)
    /\ IF dbGroup.err # NoErr
       THEN UNCHANGED <<dbGroup, job>>
       ELSE /\ Acquirable(dbGroup.sem, SetLimit(ToInt(dbLimit)))
            /\ dbGroup' = [dbGroup EXCEPT !.sem = @ + 1, !.wg = @ + 1]
            /\ job' = [job EXCEPT ![i].pc = "enum", ![i].database = databases[i]]
    /\ i' = i + 1
    /\ UNCHANGED <<pureVars, pc, runErr, flags, now, dbOutput, databases, task>>

\* one iteration of `for _, database := range databases`: dbGroup.Go takes a
\* slot of the semaphore (blocking while none is free) and starts the job
MainGo ==
    /\ pc = "loop"
    /\ i <= Len(databases)
    /\ Acquirable(dbGroup.sem, SetLimit(ToInt(dbLimit)))
    /\ dbGroup' = [dbGroup EXCEPT !.sem = @ + 1, !.wg = @ + 1]
    /\ job' = [job EXCEPT ![i].pc = "enum", ![i].database = databases[i]]
    /\ i' = i + 1
    /\ UNCHANGED <<pureVars, pc, runErr, flags, now, dbOutput, databases, task>>

\* dbGroup.Wait() after the loop, then log.Fatalf or the final log line
MainWait ==
    /\ pc = "loop"
    /\ i > Len(databases)
    /\ WaitReturns(dbGroup.wg)
    /\ pc' = IF dbGroup.err = NoErr THEN "done" ELSE "fatal"
    /\ runErr' = IF dbGroup.err = NoErr THEN runErr ELSE "backup"
    /\ UNCHANGED <<pureVars, flags, now, dbOutput, databases, i, dbGroup, job, task>>

\* ------------------------------------------------------------------ job

\* the job closure as it would be if the error of getTables were not
\* checked: it goes on with whatever the command printed
JobEnumIgnoreError(d) ==
    /\ job[d].pc = "enum"
    /\ \E failed \in BOOLEAN, out \in TableOutputs :
         job' = [job EXCEPT ![d] =
                   [@ EXCEPT !.pc = "loop",
                             !.enum = IF failed THEN "failed" ELSE "ok",
                             !.tables = getTables(out)]]
    /\ UNCHANGED <<pureVars, pc, runErr, flags, now, dbOutput, databases, i, dbGroup, task>>

\* the job closure calls getTables: on error it returns the wrapped error,
\* otherwise it creates tableGroup and enters the loop over the tables
JobEnum(d) ==
    /\ job[d].pc = "enum"
    /\ \E failed \in BOOLEAN, out \in TableOutputs :
         job' = [job EXCEPT ![d] =
                   IF failed
                   THEN [@ EXCEPT !.pc = "returned", !.enum = "failed",
                                  !.result = Err("tables", job[d].database, <<>>)]
                   ELSE [@ EXCEPT !.pc = "loop", !.enum = "ok",
                                  !.tables = getTables(out)]]
    /\ dbGroup' = [dbGroup EXCEPT !.first = FirstFailed(@, d, job'[d].result)]
    /\ UNCHANGED <<pureVars, pc, runErr, flags, now, dbOutput, databases, i, task>>

\* the table loop as it would be with cancellation of admission: once the
\* group holds an error the remaining tables are skipped
JobGoSkipAfterError(d) ==
    /\ job[d].pc = "loop"
    /\ job[d].j <= Len(job[d].tables)
    /\ IF job[d].err # NoErr
       THEN /\ job' = [job EXCEPT ![d].j = @ + 1]
            /\ UNCHANGED task
       ELSE /\ Acquirable(job[d].sem, SetLimit(ToInt(tableLimit)))
            /\ job' = [job EXCEPT ![d].sem = @ + 1, ![d].wg = @ + 1, ![d].j = @ + 1]
            /\ task' = [task EXCEPT ![<<d, job[d].j>>] =
                       [@ EXCEPT !.pc = "start", !.database = job[d].database,
                                 !.table = job[d].tables[job[d].j]]]
    /\ UNCHANGED <<pureVars, pc, runErr, flags, now, dbOutput, databases, i, dbGroup>>

\* the table loop as it would be without `table := table`: the closure reads
\* the loop variable itself, which may have moved on to a later table
JobGoSharedLoopVar(d) ==
    /\ job[d].pc = "loop"
    /\ job[d].j <= Len(job[d].tables)
    /\ Acquirable(job[d].sem, SetLimit(ToInt(tableLimit)))
    /\ job' = [job EXCEPT ![d].sem = @ + 1, ![d].wg = @ + 1, ![d].j = @ + 1]
    /\ \E k \in job[d].j..Len(job[d].tables) :
         task' = [task EXCEPT ![<<d, job[d].j>>] =
                    [@ EXCEPT !.pc = "start", !.database = job[d].database,
                              !.table = job[d].tables[k]]]
    /\ UNCHANGED <<pureVars, pc, runErr, flags, now, dbOutput, databases, i, dbGroup>>

\* one iteration of `for _, table := range tables`: tableGroup.Go; the
\* closure captures the copies `database` and `table` of the loop variables
JobGo(d) ==
    /\ job[d].pc = "loop"
    /\ job[d].j <= Len(job[d].tables)
    /\ Acquirable(job[d].sem, SetLimit(ToInt(tableLimit)))
    /\ job' = [job EXCEPT ![d].sem = @ + 1, ![d].wg = @ + 1, ![d].j = @ + 1]
    /\ task' = [task EXCEPT ![<<d, job[d].j>>] =
                       [@ EXCEPT !.pc = "start", !.database = job[d].database,
                                 !.table = job[d].tables[job[d].j]]]
    /\ UNCHANGED <<pureVars, pc, runErr, flags, now, dbOutput, databases, i, dbGroup>>

\* tableGroup.Wait() after the loop; the closure returns its error or nil
JobWait(d) ==
    /\ job[d].pc = "loop"
    /\ job[d].j > Len(job[d].tables)
    /\ WaitReturns(job[d].wg)
    /\ job' = [job EXCEPT ![d].pc = "returned", ![d].result = job[d].err]
    /\ dbGroup' = [dbGroup EXCEPT !.first = FirstFailed(@, d, job[d].err)]
    /\ UNCHANGED <<pureVars, pc, runErr, flags, now, dbOutput, databases, i, task>>

\* the goroutine dbGroup.Go started, after the job closure returned: keep
\* the first error, release the slot, wg.Done
JobExit(d) ==
    /\ job[d].pc = "returned"
    /\ job' = [job EXCEPT ![d].pc = "exited"]
    /\ dbGroup' = [dbGroup EXCEPT !.err = RecordErr(@, job[d].result),
                                  !.sem = @ - 1, !.wg = @ - 1]
    /\ UNCHANGED <<pureVars, pc, runErr, flags, now, dbOutput, databases, i, task>>

\* ------------------------------------------------------------------ task

\* the task closure up to cmd.Start(): it formats backupPath with the
\* current time, builds the command, and returns an error when the pipe or
\* the process cannot be created
TaskStart(d, t) ==
    /\ task[<<d, t>>].pc = "start"
    /\ \E ok \in BOOLEAN :
         task' = [task EXCEPT ![<<d, t>>] =
                    IF ok
                    THEN [@ EXCEPT !.pc = "upload", !.ts = Format(now),
                                   !.proc = "running"]
                    ELSE [@ EXCEPT !.pc = "returned", !.ts = Format(now),
                                   !.err = Err("start", task[<<d, t>>].database, task[<<d, t>>].table)]]
    /\ job' = [job EXCEPT ![d].first = FirstFailed(@, t, task'[<<d, t>>].err)]
    /\ UNCHANGED <<pureVars, pc, runErr, flags, now, dbOutput, databases, i, dbGroup>>

\* the task closure calls uploadToGCS and returns the wrapped error if any
TaskUpload(d, t) ==
    /\ task[<<d, t>>].pc = "upload"
    /\ \E fault \in UploadFaults \cup {"none"} :
         LET r == uploadToGCS(fault)
             e == UploadResult(r, task[<<d, t>>].database, task[<<d, t>>].table)
         IN  task' = [task EXCEPT ![<<d, t>>] =
                        [@ EXCEPT !.pc = IF e = NoErr THEN "wait" ELSE "returned",
                                  !.obj = r.obj,
                                  !.err = e]]
    /\ job' = [job EXCEPT ![d].first = FirstFailed(@, t, task'[<<d, t>>].err)]
    /\ UNCHANGED <<pureVars, pc, runErr, flags, now, dbOutput, databases, i, dbGroup>>

\* the task closure calls cmd.Wait() and returns the wrapped error or nil
TaskWait(d, t) ==
    /\ task[<<d, t>>].pc = "wait"
    /\ \E exit \in {"zero", "nonzero"} :
         task' = [task EXCEPT ![<<d, t>>] =
                    [@ EXCEPT !.pc = "returned", !.proc = "reaped", !.exit = exit,
                              !.err = WaitResult(exit, task[<<d, t>>].database, task[<<d, t>>].table)]]
    /\ job' = [job EXCEPT ![d].first = FirstFailed(@, t, task'[<<d, t>>].err)]
    /\ UNCHANGED <<pureVars, pc, runErr, flags, now, dbOutput, databases, i, dbGroup>>

\* the wrapper goroutine as it would be if it did not give its slot back
TaskExitNoRelease(d, t) ==
    /\ task[<<d, t>>].pc = "returned"
    /\ task' = [task EXCEPT ![<<d, t>>].pc = "exited"]
    /\ job' = [job EXCEPT ![d].err = RecordErr(@, task[<<d, t>>].err),
                          ![d].wg = @ - 1]
    /\ UNCHANGED <<pureVars, pc, runErr, flags, now, dbOutput, databases, i, dbGroup>>

\* the goroutine tableGroup.Go started, after the task closure returned
TaskExit(d, t) ==
    /\ task[<<d, t>>].pc = "returned"
    /\ task' = [task EXCEPT ![<<d, t>>].pc = "exited"]
    /\ job' = [job EXCEPT ![d].err = RecordErr(@, task[<<d, t>>].err),
                          ![d].sem = @ - 1, ![d].wg = @ - 1]
    /\ UNCHANGED <<pureVars, pc, runErr, flags, now, dbOutput, databases, i, dbGroup>>

\* ------------------------------------------------------------------ clock

\* the wall clock advances while the backup runs
Tick ==
    /\ pc = "loop"
    /\ now < MaxTime
    /\ now' = now + 1
    /\ UNCHANGED <<pureVars, pc, runErr, flags, dbOutput, databases, i, dbGroup, job, task>>

\* ------------------------------------------------------------------ object names

\* the object name uploadToGCS writes for a task: backupPath, then the table
ObjectKey(k) == objectName(backupPath(k.host, k.stamp, k.schema), k.table)

\* names tried for schemas and tables; MySQL allows any character, "/"
\* included, in a quoted identifier
KeyNames == { <<"a">>, <<"b">>, <<"a", "/", "b">>, <<"b", "/", "b">> }
KeyHosts == { hostname, <<"standby">> }
KeyStamps == { Format(t) : t \in 0..MaxTime }
KeyInputs == [host : KeyHosts, stamp : KeyStamps, schema : KeyNames, table : KeyNames]

InitKey ==
    /\ InitRun
    /\ skipDBs = DefaultSkipDBs
    /\ dbLimit = MaxLimit
    /\ tableLimit = MaxLimit
    /\ keyIn \in KeyInputs \X KeyInputs
    /\ keyOut = <<>>
    /\ up = IdleUpload
    /\ history = FALSE

\* derive the object names of the two tuples
DeriveKeys ==
    /\ keyOut = <<>>
    /\ keyOut' = <<ObjectKey(keyIn[1]), ObjectKey(keyIn[2])>>
    /\ UNCHANGED <<keyIn, up, history, pc, runErr, flags, now, dbOutput, databases, i, dbGroup, job, task>>

\* the derivation of object names alone, over pairs of input tuples
SpecKey == InitKey /\ [][DeriveKeys]_vars

\* ------------------------------------------------------------------ one upload

\* uploadToGCS is called on the stdout pipe of a dump of 0..MaxUnits units
InitUpload ==
    /\ InitRun
    /\ skipDBs = DefaultSkipDBs
    /\ dbLimit = MaxLimit
    /\ tableLimit = MaxLimit
    /\ keyIn = <<NoKey, NoKey>>
    /\ keyOut = <<>>
    /\ up \in {[IdleUpload EXCEPT !.src = n] : n \in 0..MaxUnits}
    /\ history = FALSE

runVars == <<pc, runErr, flags, now, dbOutput, databases, i, dbGroup, job, task, history>>

\* the statement after `step` if every `if err != nil` went on regardless
StepAfterContinue(step, failed) ==
    IF step = "attrs" THEN "ret" ELSE UploadSteps[IndexOf(UploadSteps, step) + 1]

\* the statement uploadToGCS runs after `step`: each `if err != nil` returns
\* at once, and the last statement is followed by `return nil`
StepAfter(step, failed) ==
    IF failed \/ step = "attrs" THEN "ret"
    ELSE UploadSteps[IndexOf(UploadSteps, step) + 1]

\* the record of `step` in the call: the statement is listed once
Ran(step) == IF Len(up.ran) > 0 /\ up.ran[Len(up.ran)] = step THEN up.ran
             ELSE Append(up.ran, step)

\* object := NewWriter, gzip.NewWriter, bufio.NewWriterSize: nothing fails
UpOpen ==
    /\ up.pc = "idle"
    /\ up' = [up EXCEPT !.pc = "copy", !.obj = "partial"]
    /\ UNCHANGED <<keyVars, runVars>>

\* io.Copy(bufWriter, *reader), one unit at a time: EOF ends it without
\* error; a read fails or succeeds; a unit read goes to the buffer, which is
\* written through gzipWriter when it is full, and that write fails or not
UpCopy ==
    /\ up.pc = "copy"
    /\ \/ /\ up.src = 0
          /\ up' = [up EXCEPT !.pc = StepAfter("copy", FALSE), !.ran = Ran("copy")]
       \/ /\ up.src > 0
          /\ up.buf < BufUnits
          /\ up' = [up EXCEPT !.src = @ - 1, !.buf = @ + 1, !.ran = Ran("copy")]
       \/ /\ up.src > 0
          /\ up.buf = BufUnits
          /\ up' = [up EXCEPT !.src = @ - 1, !.buf = 1, !.out = @ + up.buf,
                              !.ran = Ran("copy")]
       \/ /\ up.src > 0
          /\ up' = [up EXCEPT !.pc = StepAfter("copy", TRUE), !.err = "copy",
                              !.ran = Ran("copy")]
    /\ UNCHANGED <<keyVars, runVars>>

\* bufWriter.Flush()
UpFlush ==
    /\ up.pc = "flush"
    /\ \E failed \in BOOLEAN :
          up' = [up EXCEPT !.pc = StepAfter("flush", failed),
                           !.ran = Ran("flush"),
                           !.err = IF failed THEN "flush" ELSE @,
                           !.out = IF failed THEN @ ELSE @ + up.buf,
                           !.buf = IF failed THEN @ ELSE 0]
    /\ UNCHANGED <<keyVars, runVars>>

\* gzipWriter.Close()
UpGzipClose ==
    /\ up.pc = "gzip"
    /\ \E failed \in BOOLEAN :
          up' = [up EXCEPT !.pc = StepAfter("gzip", failed),
                           !.ran = Ran("gzip"),
                           !.gz = @ + 1,
                           !.err = IF failed THEN "gzip" ELSE @]
    /\ UNCHANGED <<keyVars, runVars>>

\* writer.Close(): the object is finalized when it succeeds
UpWriterClose ==
    /\ up.pc = "close"
    /\ \E failed \in BOOLEAN :
          up' = [up EXCEPT !.pc = StepAfter("close", failed),
                           !.ran = Ran("close"),
                           !.w = @ + 1,
                           !.obj = IF failed THEN @ ELSE "unverified",
                           !.err = IF failed THEN "close" ELSE @]
    /\ UNCHANGED <<keyVars, runVars>>

\* object.Attrs(*ctx)
UpAttrs ==
    /\ up.pc = "attrs"
    /\ \E failed \in BOOLEAN :
          up' = [up EXCEPT !.pc = StepAfter("attrs", failed),
                           !.ran = Ran("attrs"),
                           !.obj = IF failed THEN @ ELSE "verified",
                           !.err = IF failed THEN "attrs" ELSE @]
    /\ UNCHANGED <<keyVars, runVars>>

NextUpload ==
    \/ UpOpen
    \/ UpCopy
    \/ UpFlush
    \/ UpGzipClose
    \/ UpWriterClose
    \/ UpAttrs

\* one call of uploadToGCS, statement by statement
SpecUpload == InitUpload /\ [][NextUpload]_vars

\* every step of the program
Run ==
    \/ Start
    \/ GetDatabases
    \/ NewClient
    \/ MainGo
    \/ MainWait
    \/ \E d \in DBIdx : JobEnum(d)
    \/ \E d \in DBIdx : JobGo(d)
    \/ \E d \in DBIdx : JobWait(d)
    \/ \E d \in DBIdx : JobExit(d)
    \/ \E x \in TaskIdx : TaskStart(x[1], x[2])
    \/ \E x \in TaskIdx : TaskUpload(x[1], x[2])
    \/ \E x \in TaskIdx : TaskWait(x[1], x[2])
    \/ \E x \in TaskIdx : TaskExit(x[1], x[2])

Next ==
    \/ Run
    \/ Tick

\* the program with the wall clock advancing while it runs
Spec == Init /\ [][Next]_vars

\* the program with the order of the failures recorded; the history is read
\* by no step, so the runs are those of SpecRun
InitOrder ==
    /\ InitRun
    /\ keyIn = <<NoKey, NoKey>>
    /\ keyOut = <<>>
    /\ up = IdleUpload
    /\ history = TRUE

SpecOrder == InitOrder /\ [][Run]_vars

\* the program started with any value the flag package accepts for the two
\* limits, and the default list of skipped databases
InitFlags ==
    /\ pc = "start"
    /\ runErr = "none"
    /\ skipDBs = DefaultSkipDBs
    /\ dbLimit \in UintValues
    /\ tableLimit \in UintValues
    /\ now = 0
    /\ dbOutput = [err |-> FALSE, out |-> <<>>]
    /\ databases = <<>>
    /\ i = 1
    /\ dbGroup = IdleGroup
    /\ job = [d \in DBIdx |-> IdleJob]
    /\ task = [x \in TaskIdx |-> IdleTask]
    /\ keyIn = <<NoKey, NoKey>>
    /\ keyOut = <<>>
    /\ up = IdleUpload
    /\ history = FALSE

SpecFlags == InitFlags /\ [][Run]_vars

\* the program when whatever can take a step eventually takes one: the Go
\* scheduler runs every runnable goroutine, and every mysql command, dump
\* process and upload finishes
SpecFair == Init /\ [][Run]_vars /\ WF_vars(Run)

\* the program in a run short enough that the clock does not advance: `now`
\* is read only by TaskStart, for the timestamp of the object name, so every
\* property that mentions neither `now` nor a timestamp holds of Spec when it
\* holds of SpecRun
SpecRun == Init /\ [][Run]_vars

\* ------------------------------------------------------------------ vocabulary

\* closures admitted by dbGroup.Go that have not returned yet
RunningJobs == {d \in DBIdx : job[d].pc \in {"enum", "loop"}}

\* closures admitted by the tableGroup.Go of job d that have not returned yet
RunningTasks(d) == {t \in TblIdx : task[<<d, t>>].pc \in {"start", "upload", "wait"}}

\* s[a..b] is a maximal stretch of s free of the separator
IsField(s, sep, a, b) ==
    /\ a \in 1..(Len(s) + 1)
    /\ b \in (a - 1)..Len(s)
    /\ a = 1 \/ s[a - 1] = sep
    /\ b = Len(s) \/ s[b + 1] = sep
    /\ \A k \in a..b : s[k] # sep

\* name is an entry of the comma-separated exclusion list
Excluded(name) ==
    \E a \in 1..(Len(skipDBs) + 1), b \in 0..Len(skipDBs) :
        IsField(skipDBs, ",", a, b) /\ SubSeq(skipDBs, a, b) = name

\* name is one of the lines the server printed for SHOW DATABASES
ServerListed(name) ==
    /\ ~dbOutput.err
    /\ \E a \in 1..Len(dbOutput.out), b \in 0..(Len(dbOutput.out) - 1) :
        /\ IsField(dbOutput.out, "\n", a, b)
        /\ SubSeq(dbOutput.out, a, b) = name

DBNames == {DBPool[k] : k \in 1..Len(DBPool)}

\* the jobs ever started for the schema called name
JobsOf(name) ==
    {d \in DBIdx : d <= Len(databases) /\ databases[d] = name /\ job[d].pc # "idle"}

\* dbGroup.Wait has returned: main reported the result of the backup
Reported == pc = "done" \/ (pc = "fatal" /\ runErr = "backup")

\* the task's dump exited zero and its object was finalized and verified
TaskSucceeded(x) == task[x].obj = "verified" /\ task[x].exit = "zero"

\* the job's enumeration succeeded and so did the task of each of its tables
JobSucceeded(d) ==
    /\ job[d].enum = "ok"
    /\ \A t \in 1..Len(job[d].tables) : TaskSucceeded(<<d, t>>)

\* the task (job) has returned an error
TaskFailed(x) == task[x].pc \in {"returned", "exited"} /\ task[x].err # NoErr
JobFailed(d) == job[d].pc \in {"returned", "exited"} /\ job[d].result # NoErr

\* ------------------------------------------------------------------ claims

\* C1: at every moment the number of running jobs is at most dbLimit, and in
\* every job the number of running tasks is at most tableLimit, whatever the
\* other jobs do.
C1_ConcurrencyLimits ==
    /\ Cardinality(RunningJobs) <= dbLimit
    /\ \A d \in DBIdx : Cardinality(RunningTasks(d)) <= tableLimit

\* both pools are full and each has work waiting to be admitted
C1_Witness ==
    /\ pc = "loop"
    /\ i <= Len(databases)
    /\ Cardinality(RunningJobs) = dbLimit
    /\ \E d \in DBIdx :
         /\ job[d].pc = "loop"
         /\ job[d].j <= Len(job[d].tables)
         /\ Cardinality(RunningTasks(d)) = tableLimit

\* C2: a schema named in the exclusion list is never in the result of
\* getDatabases and never has a job, a task, a dump process or an object;
\* no schema ever has two jobs; and when the backup has been reported every
\* schema the server listed that is not in the exclusion list has had
\* exactly one job.
C2_ExcludedNeverBackedUp ==
    /\ \A d \in DBIdx :
         (d <= Len(databases) \/ job[d] # IdleJob \/ \E t \in TblIdx : task[<<d, t>>] # IdleTask)
            => /\ d <= Len(databases)
               /\ ~Excluded(databases[d])
               /\ ServerListed(databases[d])
    /\ \A name \in DBNames : Cardinality(JobsOf(name)) <= 1
    /\ Reported =>
         \A name \in DBNames :
            (ServerListed(name) /\ ~Excluded(name)) =>
                /\ Cardinality(JobsOf(name)) = 1
                /\ \A d \in JobsOf(name) : job[d].pc = "exited"

\* the default exclusion list, the server lists the excluded schema test
\* next to appdb, and the backup has run: appdb has a job
C2_Witness ==
    /\ Reported
    /\ skipDBs = DefaultSkipDBs
    /\ ServerListed(<<"test">>)
    /\ Excluded(<<"test">>)
    /\ JobsOf(<<"appdb">>) # {}
    /\ \E d \in JobsOf(<<"appdb">>) : \E t \in TblIdx : task[<<d, t>>].obj = "verified"

\* C3: a task whose mysqldump exited non-zero, after the upload, the
\* finalize and the metadata check all succeeded, has returned an error.
C3_ExitStatusDominates ==
    \A x \in TaskIdx :
        task[x].exit = "nonzero" =>
            /\ task[x].pc \in {"returned", "exited"}
            /\ task[x].err # NoErr
            /\ task[x].obj = "verified"

\* a task returned after a verified upload and a non-zero exit
C3_Witness ==
    \E x \in TaskIdx :
        /\ task[x].pc = "returned"
        /\ task[x].obj = "verified"
        /\ task[x].exit = "nonzero"

\* C4: a task whose upload failed at any step (the object is left partial,
\* or finalized but not verified) has returned an error; it never goes on
\* to cmd.Wait and never returns nil.
C4_SinkFailureFailsTask ==
    \A x \in TaskIdx :
        /\ task[x].obj \in {"partial", "unverified"} =>
              /\ task[x].pc \in {"returned", "exited"}
              /\ task[x].err # NoErr
        /\ task[x].pc = "wait" => task[x].obj = "verified"

\* one task left a partial object and another a finalized, unverified one
C4_Witness ==
    \E x, y \in TaskIdx :
        /\ task[x].pc = "returned" /\ task[x].obj = "partial"
        /\ task[y].pc = "returned" /\ task[y].obj = "unverified"

\* C5: a job returns nil exactly when its enumeration and every one of its
\* tasks succeeded, and once dbGroup.Wait has returned the run reports
\* success exactly when every job succeeded.
C5_SuccessIffAllSucceeded ==
    /\ \A d \in DBIdx :
         job[d].pc \in {"returned", "exited"} => (job[d].result = NoErr <=> JobSucceeded(d))
    /\ pc = "done" =>
         \A d \in 1..Len(databases) : job[d].pc = "exited" /\ JobSucceeded(d)
    /\ (pc = "fatal" /\ runErr = "backup") =>
         \E d \in 1..Len(databases) : ~JobSucceeded(d)

\* the run reported failure for a job in which the dump of orders exited
\* non-zero while the sibling task of users succeeded
C5_Witness ==
    /\ pc = "fatal"
    /\ runErr = "backup"
    /\ \E d \in DBIdx :
         /\ Len(job[d].tables) = 2
         /\ job[d].tables[2] = <<"orders">>
         /\ task[<<d, 2>>].exit = "nonzero"
         /\ TaskSucceeded(<<d, 1>>)

\* C6: when the mysql command of getDatabases fails, main is at log.Fatalf
\* with no database, no job, no task, no dump process and no object.
C6_EnumerationFailureStopsRun ==
    dbOutput.err =>
        /\ pc = "fatal"
        /\ runErr = "databases"
        /\ databases = <<>>
        /\ \A d \in DBIdx : job[d] = IdleJob
        /\ \A x \in TaskIdx : task[x] = IdleTask
        /\ dbGroup = IdleGroup

\* the command failed after printing some schemas
C6_Witness ==
    /\ dbOutput.err
    /\ dbOutput.out # <<>>
    /\ pc = "fatal"

\* C7: any two tasks of a run carry the same timestamp in their object names.
C7_OneTimestampPerRun ==
    \A x, y \in TaskIdx :
        (task[x].ts # <<>> /\ task[y].ts # <<>>) => task[x].ts = task[y].ts

\* C8: the object name is an injective function of (host, timestamp, schema,
\* table): two tuples get the same name exactly when they are equal.
C8_ObjectKeyInjective ==
    keyOut # <<>> => (keyOut[1] = keyOut[2] <=> keyIn[1] = keyIn[2])

\* C9: a job has not returned while one of its admitted tasks is not done,
\* and main has not reported while an admitted job is not done, whether the
\* result is an error or nil.
C9_WaitBarrier ==
    /\ \A d \in DBIdx :
         job[d].pc \in {"returned", "exited"} =>
            \A t \in TblIdx : task[<<d, t>>].pc \in {"idle", "exited"}
    /\ pc \in {"done", "fatal"} =>
         /\ \A d \in DBIdx : job[d].pc \in {"idle", "exited"}
         /\ \A x \in TaskIdx : task[x].pc \in {"idle", "exited"}

\* a failed run of two jobs, one of which failed with two tasks
C9_Witness ==
    /\ pc = "fatal"
    /\ runErr = "backup"
    /\ Len(databases) = 2
    /\ \E d \in DBIdx : Len(job[d].tables) = 2 /\ JobFailed(d)

OpenDumps == {x \in TaskIdx : task[x].proc = "running"}

\* C11: at every moment the number of mysqldump processes started and not
\* yet waited on or killed is at most dbLimit * tableLimit.
C11_StreamCeiling == Cardinality(OpenDumps) <= dbLimit * tableLimit

\* C12: a task that has returned has no mysqldump process left that was
\* neither waited on nor killed, whichever way it returned.
C12_ReapedBeforeReturn ==
    \A x \in TaskIdx :
        task[x].pc \in {"returned", "exited"} => task[x].proc # "running"

\* the statement-by-statement run of uploadToGCS ends as the summary
\* uploadToGCS(fault) of the failing statement says
UploadSummaryAgrees ==
    up.pc = "ret" =>
        LET r == uploadToGCS(IF up.err = "nil" THEN "none" ELSE up.err)
        IN  up.ran = r.ran /\ up.err = r.err /\ up.obj = r.obj

\* C13: when uploadToGCS has returned, with or without error, the gzip
\* writer and the object writer have each been closed exactly once, and after
\* a failure the object is not finalized.
C13_ResourcesReleased ==
    up.pc = "ret" =>
        /\ up.gz = 1
        /\ up.w = 1
        /\ (up.err # "nil" => up.obj \notin {"unverified", "verified"})

\* C14: the statements of uploadToGCS run in the order copy, flush, gzip
\* close, writer close, Attrs; none runs after one has failed; success is
\* returned only when all five ran without error and all data went out; a
\* failure of Attrs after the object was finalized is a failure of the call.
C14_UploadSequence ==
    /\ up.ran = SubSeq(UploadSteps, 1, Len(up.ran))
    /\ up.err # "nil" => up.pc = "ret" /\ up.ran[Len(up.ran)] = up.err
    /\ up.pc = "ret" /\ up.err = "nil" =>
           /\ up.ran = UploadSteps
           /\ up.src = 0 /\ up.buf = 0
           /\ up.gz = 1 /\ up.w = 1
           /\ up.obj = "verified"
    /\ up.pc = "ret" /\ up.obj = "unverified" => up.err = "attrs"
    /\ up.obj = "verified" => up.pc = "ret" /\ up.err = "nil"

C14_Witness ==
    up.pc = "ret" /\ up.err = "nil" /\ up.out > BufUnits /\ up.ran = UploadSteps

\* the error job d reports is that of the task closure that was the first
\* of the job to return an error
JobReportsFirstFailure(d) ==
    job[d].result # NoErr /\ job[d].enum = "ok" =>
        job[d].result = task[<<d, job[d].first>>].err

\* C15: the error a job reports is the error of the task that failed first
\* in that job, and the error the run keeps is the error of the job that
\* failed first.
C15_FirstFailureReported ==
    /\ \A d \in DBIdx :
         job[d].pc \in {"returned", "exited"} => JobReportsFirstFailure(d)
    /\ pc = "fatal" /\ runErr = "backup" =>
         dbGroup.err = job[dbGroup.first].result

\* C15 as the code has it: the error slot of a group is written once (a
\* slot that holds an error never changes, whatever fails later), the error
\* kept is the error some closure of the group returned, and what Wait
\* hands on is that slot; a closure that returned its error earlier but
\* reached errOnce later does not replace it.
C15_WriteOnce ==
    [][ /\ \A d \in DBIdx :
             /\ job[d].err # NoErr => job'[d].err = job[d].err
             /\ job'[d].err # job[d].err =>
                  \E t \in TblIdx : /\ task[<<d, t>>].pc = "returned"
                                    /\ task'[<<d, t>>].pc = "exited"
                                    /\ job'[d].err = task[<<d, t>>].err
             /\ job[d].pc = "loop" /\ job'[d].pc = "returned" =>
                  job'[d].result = job[d].err
        /\ dbGroup.err # NoErr => dbGroup'.err = dbGroup.err
        /\ dbGroup'.err # dbGroup.err =>
             \E d \in DBIdx : /\ job[d].pc = "returned"
                              /\ job'[d].pc = "exited"
                              /\ dbGroup'.err = job[d].result
      ]_vars

\* both tasks of a job failed; the one that returned its error second was
\* recorded, and the job reported it
C15_Witness ==
    \E d \in DBIdx :
        /\ job[d].pc = "exited"
        /\ job[d].first = 1
        /\ task[<<d, 1>>].err # NoErr
        /\ task[<<d, 2>>].err # NoErr
        /\ job[d].result = task[<<d, 2>>].err

\* C16: when getTables fails for a schema, the job of that schema returns
\* at once with an error that names the schema: it has admitted no task, no
\* dump process was started and no object written for the schema, and once
\* the job is done the run holds an error.
C16_TableEnumerationFailureFailsJob ==
    \A d \in DBIdx :
        job[d].enum = "failed" =>
            /\ job[d].pc \in {"returned", "exited"}
            /\ job[d].result.kind = "tables"
            /\ job[d].result.database = databases[d]
            /\ job[d].tables = <<>> /\ job[d].j = 1
            /\ job[d].sem = 0 /\ job[d].wg = 0
            /\ \A t \in TblIdx : task[<<d, t>>] = IdleTask
            /\ job[d].pc = "exited" => dbGroup.err # NoErr

\* getTables failed for appdb, the only schema, and the run reported it
C16_Witness ==
    /\ pc = "fatal"
    /\ runErr = "backup"
    /\ databases = << <<"appdb">> >>
    /\ job[1].enum = "failed"
    /\ dbGroup.err = Err("tables", <<"appdb">>, <<>>)

\* C17: when getTables failed for one schema and the run has reported, the
\* run has failed, yet the job of every other schema was started and is done,
\* each job whose enumeration succeeded ran a task for each of its tables,
\* and such a job reports no error when all its tasks succeeded.
C17_EnumerationFailureAbortsOnlyItsJob ==
    (Reported /\ \E d \in DBIdx : job[d].enum = "failed") =>
        /\ pc = "fatal"
        /\ \A e \in 1..Len(databases) :
             /\ job[e].pc = "exited"
             /\ job[e].enum = "ok" =>
                  /\ \A t \in 1..Len(job[e].tables) :
                       /\ task[<<e, t>>].pc = "exited"
                       /\ task[<<e, t>>].ts # <<>>
                  /\ JobSucceeded(e) => job[e].result = NoErr

\* with dbLimit 1, getTables failed for the first schema; the job of the
\* second schema started after that and wrote the objects of both its tables
C17_Witness ==
    /\ dbLimit = 1
    /\ pc = "fatal"
    /\ Len(databases) = 2
    /\ job[1].enum = "failed"
    /\ Len(job[2].tables) = 2
    /\ JobSucceeded(2)
    /\ job[2].result = NoErr

\* main has reported and no job or task is left running
Terminal ==
    /\ pc \in {"done", "fatal"}
    /\ \A d \in DBIdx : job[d].pc \in {"idle", "exited"}
    /\ \A x \in TaskIdx : task[x].pc \in {"idle", "exited"}

\* C18: with limits of at least 1 and every step that can be taken
\* eventually taken, the run reaches its terminal status with no job or task
\* left, and stays there: the nested pools do not deadlock, and the status,
\* once reported, does not change.
C18_Terminates == <>[]Terminal

\* both pools are full with an admission waiting on each: the job holds the
\* only slot of dbGroup while main has a database left, and a task holds the
\* only slot of tableGroup while the job has a table left
C18_Witness ==
    /\ dbLimit = 1 /\ tableLimit = 1
    /\ pc = "loop" /\ i <= Len(databases) /\ dbGroup.sem = 1
    /\ \E d \in DBIdx :
         /\ job[d].pc = "loop"
         /\ job[d].j <= Len(job[d].tables)
         /\ job[d].sem = 1
         /\ ~Acquirable(job[d].sem, SetLimit(ToInt(tableLimit)))

\* C19: once main schedules jobs, the limits given to SetLimit for dbGroup
\* and for each tableGroup are both at least 1, whatever accepted values
\* -dbLimit and -tableLimit have.
C19_LimitsAtLeastOne ==
    pc = "loop" =>
        /\ SetLimit(ToInt(dbLimit)) >= 1
        /\ SetLimit(ToInt(tableLimit)) >= 1

\* the tasks of the run that were started for table tbl of schema db
TasksFor(db, tbl) ==
    {x \in TaskIdx : task[x].pc # "idle" /\ task[x].database = db /\ task[x].table = tbl}

\* C20: no (schema, table) has two tasks; every table of a job that is past
\* its table loop has exactly one task; and when the run reports success,
\* every schema the server listed that is not excluded has one job, and every
\* table of it has exactly one task, whose dump was waited on and exited zero
\* and whose object is finalized and verified.
C20_EachTableBackedUpOnce ==
    /\ \A x, y \in TaskIdx :
         (task[x].pc # "idle" /\ task[y].pc # "idle" /\ x # y) =>
             <<task[x].database, task[x].table>> # <<task[y].database, task[y].table>>
    /\ \A d \in DBIdx :
         (job[d].pc \in {"returned", "exited"} /\ job[d].enum = "ok") =>
             \A t \in 1..Len(job[d].tables) :
                 Cardinality(TasksFor(databases[d], job[d].tables[t])) = 1
    /\ pc = "done" =>
         \A name \in DBNames :
             (ServerListed(name) /\ ~Excluded(name)) =>
                 /\ Cardinality(JobsOf(name)) = 1
                 /\ \A d \in JobsOf(name) :
                      /\ job[d].enum = "ok"
                      /\ \A t \in 1..Len(job[d].tables) :
                           \A x \in TasksFor(name, job[d].tables[t]) :
                               /\ TaskSucceeded(x)
                               /\ task[x].proc = "reaped"
                               /\ task[x].pc = "exited"

\* the run reported success after backing up two tables in each of two
\* schemas
C20_Witness ==
    /\ pc = "done"
    /\ Len(databases) = 2
    /\ \A d \in 1..2 :
         /\ Len(job[d].tables) = 2
         /\ \A t \in 1..2 :
              /\ Cardinality(TasksFor(databases[d], job[d].tables[t])) = 1
              /\ TaskSucceeded(<<d, t>>)

====
